---- MODULE Spec2Model ----
(***************************************************************************)
(* User Tasks API (FastAPI + SQLAlchemy): the users and tasks tables, the  *)
(* record access functions of operations/operations_db.py and the request  *)
(* handlers of main.py.                                                    *)
(*                                                                         *)
(* A column or payload value is Null (Python None / SQL NULL) or Val(v).   *)
(* A field of an update payload that the request did not carry is Unset    *)
(* (pydantic's exclude_unset leaves it out of the update).                 *)
(***************************************************************************)
EXTENDS Integers, Sequences, FiniteSets, TLC

VARIABLES
    backend,    \* "sqlite" | "postgresql": the engine connection_db.py selects
    users,      \* the users table: id -> row
    tasks,      \* the tasks table: id -> row
    user_seq,   \* postgresql: last value of the users id sequence
    task_seq,   \* postgresql: last value of the tasks id sequence
    now,        \* the clock datetime.utcnow() reads
    last,       \* the response of the request handled last (serial handlers)
    reqs        \* the requests in flight (interleaved handlers): slot -> request

vars == <<backend, users, tasks, user_seq, task_seq, now, last, reqs>>

-----------------------------------------------------------------------------
(* Bounds *)

\* utcnow() values are 1..MaxClock; every insert or update reads one.
MaxClock == 4
\* Requests in flight at once (interleaved handlers).
NumReqs == 2
\* skip and limit range over -1 .. MaxPage
MaxPage == 2

-----------------------------------------------------------------------------
(* Values *)

Unset == <<"unset">>
Null == <<"null">>
Val(v) == <<"val", v>>

\* None as the result of Query.first()
NoRow == 0

Usernames == {"ana", "bob"}
Emails == {"a@x.com", "b@x.com"}
Passwords == {"secret", ""}

Max(S) == CHOOSE m \in S : \A n \in S : n <= m
Min(S) == CHOOSE m \in S : \A n \in S : m <= n

\* pwd_context.hash: a bcrypt string, never equal to a cleartext
Hash(password) == "$2b$" \o password

\* Python truthiness of an Optional[str] attribute
Truthy(v) == v # Unset /\ v # Null /\ v # Val("")

\* The attribute pydantic gives for a field: None when it was not sent
Attr(v) == IF v = Unset THEN Null ELSE v

\* The sequences without repetition that list all of S
Orderings(S) ==
    {q \in [1 .. Cardinality(S) -> S] : \A i, j \in DOMAIN q : i # j => q[i] # q[j]}

-----------------------------------------------------------------------------
(* data/models.py: request schemas *)

UserFields == {"username", "email", "password", "is_active", "is_premium"}
TaskFields == {"title", "description", "completed", "priority", "due_date"}

UserCreate ==
    [username : Usernames, email : Emails, password : Passwords,
     is_active : BOOLEAN, is_premium : BOOLEAN]

\* A payload carrying the fields of f and no other field of fields
Payload(fields, f) == [k \in fields |-> IF k \in DOMAIN f THEN f[k] ELSE Unset]

\* user_data.dict(exclude_unset=True): the keys of the update
AllFields(p, fields) == fields
FieldsSet(p, fields) == {f \in fields : p[f] # Unset}

-----------------------------------------------------------------------------
(* data/models.py: tables and their constraints *)

\* users.username, users.email, users.password: nullable=False
UserNotNullOk(row) ==
    row.username # Null /\ row.email # Null /\ row.password # Null

\* users.username, users.email: unique=True
NoUniqueCheck(us, id, row) == TRUE
UserUniqueOk(us, id, row) ==
    \A j \in DOMAIN us \ {id} :
        us[j].username # row.username /\ us[j].email # row.email

\* tasks.title: nullable=False
TaskNotNullOk(row) == row.title # Null

\* tasks.user_id: ForeignKey("users.id"). PostgreSQL enforces it; SQLite does
\* only under PRAGMA foreign_keys=ON, which connection_db.py never sets.
TaskForeignKeyOk(us, row) == backend = "sqlite" \/ row.user_id \in DOMAIN us

\* The id an INSERT assigns: max(rowid)+1 in SQLite (INTEGER PRIMARY KEY
\* without AUTOINCREMENT), the next sequence value in PostgreSQL.
NextId(table, seq) ==
    IF backend = "sqlite" THEN Max(DOMAIN table \cup {0}) + 1 ELSE seq + 1

\* The sequence after an INSERT was tried (nextval is never rolled back)
NextSeq(seq) == IF backend = "postgresql" THEN seq + 1 ELSE seq

\* UserResponse: is_active and is_premium are bool, None does not validate
UserResponseOk(row) == row.is_active # Null /\ row.is_premium # Null

\* TaskResponse: completed is bool and priority is int
TaskResponseOk(row) == row.completed # Null /\ row.priority # Null

-----------------------------------------------------------------------------
(* operations/operations_db.py: queries *)

get_user(us, user_id) == IF user_id \in DOMAIN us THEN user_id ELSE NoRow

get_user_by_username(us, username) ==
    LET S == {i \in DOMAIN us : us[i].username = Val(username)}
    IN  IF S = {} THEN NoRow ELSE Min(S)

get_user_by_email(us, email) ==
    LET S == {i \in DOMAIN us : us[i].email = Val(email)}
    IN  IF S = {} THEN NoRow ELSE Min(S)

get_task(ts, task_id) == IF task_id \in DOMAIN ts THEN task_id ELSE NoRow

\* .offset(skip).limit(limit).all() over the rows matching: the lists the
\* query may return (SQL leaves the order without ORDER BY open), or no list
\* at all where the engine rejects the statement. SQLite reads a negative
\* OFFSET as 0 and a negative LIMIT as no limit; PostgreSQL rejects both.
QueryFails(skip, limit) == backend = "postgresql" /\ (skip < 0 \/ limit < 0)

OffsetLimit(matching, skip, limit) ==
    LET n == Cardinality(matching)
        from == IF skip < 0 THEN 0 ELSE skip
        rest == IF n > from THEN n - from ELSE 0
        len == IF limit < 0 \/ limit > rest THEN rest ELSE limit
    IN  {[i \in 1 .. len |-> q[from + i]] : q \in Orderings(matching)}

get_users(us) == DOMAIN us
get_active_users(us) == {i \in DOMAIN us : us[i].is_active = Val(TRUE)}
get_premium_users(us) == {i \in DOMAIN us : us[i].is_premium = Val(TRUE)}
get_tasks(ts) == DOMAIN ts
get_user_tasks(ts, user_id) == {i \in DOMAIN ts : ts[i].user_id = user_id}

-----------------------------------------------------------------------------
(* operations/operations_db.py: users *)

\* The row create_user adds
NewUserRow(user_data, t) ==
    [username |-> Val(user_data.username),
     email |-> Val(user_data.email),
     password |-> Val(Hash(user_data.password)),
     is_active |-> Val(user_data.is_active),
     is_premium |-> Val(user_data.is_premium),
     created_at |-> t,
     updated_at |-> t]

\* ops.create_user: [ok, id, users]; ok = FALSE is the IntegrityError of commit
ops_create_user(us, seq, user_data, t) ==
    LET id == NextId(us, seq)
        row == NewUserRow(user_data, t)
    IN  IF UserNotNullOk(row) /\ UserUniqueOk(us, id, row)
        THEN [ok |-> TRUE, id |-> id, users |-> (id :> row) @@ us]
        ELSE [ok |-> FALSE, id |-> NoRow, users |-> us]

\* update_data of ops.update_user once the password is hashed
UpdateData(user_data) ==
    [user_data EXCEPT !.password = IF Truthy(@) THEN Val(Hash(@[2])) ELSE @]

\* for key, value in update_data.items(): setattr(db_obj, key, value), then
\* commit. loaded is the row as the session read it: the UPDATE carries the
\* attributes whose new value differs from the loaded one, and changes those
\* columns of the row as it is now.
SetAttrs(row, loaded, update_data, fields) ==
    [f \in DOMAIN row |->
        IF f \in FieldsSet(update_data, fields) /\ Attr(update_data[f]) # loaded[f]
        THEN Attr(update_data[f])
        ELSE row[f]]

\* ops.update_user: [found, ok, users]; found = FALSE returns None,
\* ok = FALSE is the IntegrityError of commit (rolled back)
ops_update_user(us, loaded, user_id, user_data, t) ==
    IF user_id \notin DOMAIN us
    THEN [found |-> FALSE, ok |-> TRUE, users |-> us]
    ELSE LET row == [SetAttrs(us[user_id], loaded, UpdateData(user_data), UserFields)
                        EXCEPT !.updated_at = t]
         IN  IF UserNotNullOk(row) /\ UserUniqueOk(us, user_id, row)
             THEN [found |-> TRUE, ok |-> TRUE,
                   users |-> [us EXCEPT ![user_id] = row]]
             ELSE [found |-> TRUE, ok |-> FALSE, users |-> us]

\* User.tasks: cascade="all, delete-orphan"
CascadeTasks(ts, user_id) ==
    [i \in {j \in DOMAIN ts : ts[j].user_id # user_id} |-> ts[i]]

\* ops.delete_user: [result, users, tasks]
DeleteUserKeepsRow(us, ts, user_id) ==
    [result |-> user_id \in DOMAIN us, users |-> us, tasks |-> ts]
ops_delete_user(us, ts, user_id) ==
    IF user_id \in DOMAIN us
    THEN [result |-> TRUE,
          users |-> [i \in DOMAIN us \ {user_id} |-> us[i]],
          tasks |-> CascadeTasks(ts, user_id)]
    ELSE [result |-> FALSE, users |-> us, tasks |-> ts]

-----------------------------------------------------------------------------
(* operations/operations_db.py: tasks *)

\* The row create_task adds
NewTaskRow(task_data, user_id, t) ==
    [title |-> Val(task_data.title),
     description |-> task_data.description,
     completed |-> Val(task_data.completed),
     priority |-> Val(task_data.priority),
     due_date |-> task_data.due_date,
     user_id |-> user_id,
     created_at |-> t,
     updated_at |-> t]

\* ops.create_task: [ok, id, tasks]; ok = FALSE is the IntegrityError of commit
ops_create_task(us, ts, seq, task_data, user_id, t) ==
    LET id == NextId(ts, seq)
        row == NewTaskRow(task_data, user_id, t)
    IN  IF TaskNotNullOk(row) /\ TaskForeignKeyOk(us, row)
        THEN [ok |-> TRUE, id |-> id, tasks |-> (id :> row) @@ ts]
        ELSE [ok |-> FALSE, id |-> NoRow, tasks |-> ts]

\* ops.update_task: [found, ok, tasks]
ops_update_task(ts, loaded, task_id, task_data, t) ==
    IF task_id \notin DOMAIN ts
    THEN [found |-> FALSE, ok |-> TRUE, tasks |-> ts]
    ELSE LET row == [SetAttrs(ts[task_id], loaded, task_data, TaskFields)
                        EXCEPT !.updated_at = t]
         IN  IF TaskNotNullOk(row)
             THEN [found |-> TRUE, ok |-> TRUE,
                   tasks |-> [ts EXCEPT ![task_id] = row]]
             ELSE [found |-> TRUE, ok |-> FALSE, tasks |-> ts]

\* ops.delete_task: [result, tasks]
ops_delete_task(ts, task_id) ==
    IF task_id \in DOMAIN ts
    THEN [result |-> TRUE, tasks |-> [i \in DOMAIN ts \ {task_id} |-> ts[i]]]
    ELSE [result |-> FALSE, tasks |-> ts]

-----------------------------------------------------------------------------
(* main.py: responses and the checks of the handlers *)

Response(op, id, status, detail, body) ==
    [op |-> op, id |-> id, status |-> status, detail |-> detail, body |-> body]

NoResponse == Response("", NoRow, 0, "", <<>>)

\* The uniqueness checks of the create_user handler: "" when they pass
CreateUserGuardUsernameOnly(us, user) ==
    IF get_user_by_username(us, user.username) # NoRow
    THEN "Username already registered"
    ELSE ""
CreateUserGuard(us, user) ==
    IF get_user_by_username(us, user.username) # NoRow
    THEN "Username already registered"
    ELSE IF get_user_by_email(us, user.email) # NoRow
         THEN "Email already registered"
         ELSE ""

\* update_user: whether the handler looks the new username / email up
ChecksUsername(user, db_user) ==
    Truthy(user.username) /\ user.username # db_user.username
ChecksEmail(user, db_user) ==
    Truthy(user.email) /\ user.email # db_user.email

\* The uniqueness checks of the update_user handler: "" when they pass
UpdateUserGuard(us, db_user, user) ==
    IF ChecksUsername(user, db_user)
       /\ get_user_by_username(us, user.username[2]) # NoRow
    THEN "Username already taken"
    ELSE IF ChecksEmail(user, db_user)
            /\ get_user_by_email(us, user.email[2]) # NoRow
         THEN "Email already registered"
         ELSE ""

\* The response to ops.update_user's result r
UpdateUserResponse(user_id, r) ==
    IF ~r.ok
    THEN Response("update_user", user_id, 500, "IntegrityError", <<>>)
    ELSE IF ~r.found \/ ~UserResponseOk(r.users[user_id])
    THEN Response("update_user", user_id, 500, "ValidationError", <<>>)
    ELSE Response("update_user", user_id, 200, "", <<user_id>>)

\* The response to ops.update_task's result r
UpdateTaskResponse(task_id, r) ==
    IF ~r.ok
    THEN Response("update_task", task_id, 500, "IntegrityError", <<>>)
    ELSE IF ~r.found \/ ~TaskResponseOk(r.tasks[task_id])
    THEN Response("update_task", task_id, 500, "ValidationError", <<>>)
    ELSE Response("update_task", task_id, 200, "", <<task_id>>)

\* The response to a list query over the rows matching
ListResponse(op, id, rows, ok, body) ==
    IF \E i \in rows : ~ok[i]
    THEN Response(op, id, 500, "ValidationError", <<>>)
    ELSE Response(op, id, 200, "", body)

\* The rows read_users selects
ReadUsersRows(us, active, premium) ==
    IF active = Val(TRUE) THEN get_active_users(us)
    ELSE IF premium = Val(TRUE) THEN get_premium_users(us)
    ELSE get_users(us)

-----------------------------------------------------------------------------
(* main.py: the handlers, each run from request to response *)

Serial == UNCHANGED <<backend, reqs>>

\* POST /users/
create_user(user) ==
    LET detail == CreateUserGuard(users, user)
        r == ops_create_user(users, user_seq, user, now)
    IN  /\ Serial
        /\ UNCHANGED <<tasks, task_seq>>
        /\ IF detail # ""
           THEN /\ last' = Response("create_user", NoRow, 400, detail, <<>>)
                /\ UNCHANGED <<users, user_seq, now>>
           ELSE /\ now < MaxClock
                /\ users' = r.users
                /\ user_seq' = NextSeq(user_seq)
                /\ now' = now + 1
                /\ last' = IF r.ok
                           THEN Response("create_user", r.id, 201, "", <<r.id>>)
                           ELSE Response("create_user", NoRow, 500, "IntegrityError", <<>>)

\* GET /users/
read_users(skip, limit, active, premium) ==
    LET rows == ReadUsersRows(users, active, premium)
    IN  /\ Serial
        /\ UNCHANGED <<users, tasks, user_seq, task_seq, now>>
        /\ IF QueryFails(skip, limit)
           THEN last' = Response("read_users", NoRow, 500, "DataError", <<>>)
           ELSE \E body \in OffsetLimit(rows, skip, limit) :
                  last' = ListResponse("read_users", NoRow,
                            {body[i] : i \in DOMAIN body},
                            [i \in DOMAIN users |-> UserResponseOk(users[i])], body)

\* GET /users/{user_id}
read_user(user_id) ==
    /\ Serial
    /\ UNCHANGED <<users, tasks, user_seq, task_seq, now>>
    /\ last' = IF get_user(users, user_id) = NoRow
               THEN Response("read_user", user_id, 404, "User not found", <<>>)
               ELSE IF ~UserResponseOk(users[user_id])
               THEN Response("read_user", user_id, 500, "ValidationError", <<>>)
               ELSE Response("read_user", user_id, 200, "", <<user_id>>)

\* GET /users/{user_id}/details
read_user_with_tasks(user_id) ==
    /\ Serial
    /\ UNCHANGED <<users, tasks, user_seq, task_seq, now>>
    /\ IF get_user(users, user_id) = NoRow
       THEN last' = Response("read_user_with_tasks", user_id, 404, "User not found", <<>>)
       ELSE IF ~UserResponseOk(users[user_id])
               \/ \E i \in get_user_tasks(tasks, user_id) : ~TaskResponseOk(tasks[i])
       THEN last' = Response("read_user_with_tasks", user_id, 500, "ValidationError", <<>>)
       ELSE \E body \in Orderings(get_user_tasks(tasks, user_id)) :
              last' = Response("read_user_with_tasks", user_id, 200, "", body)

\* PUT /users/{user_id}
update_user(user_id, user) ==
    /\ Serial
    /\ UNCHANGED <<tasks, task_seq, user_seq>>
    /\ IF get_user(users, user_id) = NoRow
       THEN /\ last' = Response("update_user", user_id, 404, "User not found", <<>>)
            /\ UNCHANGED <<users, now>>
       ELSE LET detail == UpdateUserGuard(users, users[user_id], user)
                r == ops_update_user(users, users[user_id], user_id, user, now)
            IN  IF detail # ""
                THEN /\ last' = Response("update_user", user_id, 400, detail, <<>>)
                     /\ UNCHANGED <<users, now>>
                ELSE /\ now < MaxClock
                     /\ users' = r.users
                     /\ now' = now + 1
                     /\ last' = UpdateUserResponse(user_id, r)

\* DELETE /users/{user_id}
delete_user(user_id) ==
    /\ Serial
    /\ UNCHANGED <<user_seq, task_seq, now>>
    /\ IF get_user(users, user_id) = NoRow
       THEN /\ last' = Response("delete_user", user_id, 404, "User not found", <<>>)
            /\ UNCHANGED <<users, tasks>>
       ELSE LET r == ops_delete_user(users, tasks, user_id)
            IN  /\ users' = r.users
                /\ tasks' = r.tasks
                /\ last' = IF r.result
                           THEN Response("delete_user", user_id, 204, "", <<>>)
                           ELSE Response("delete_user", user_id, 500, "Error deleting user", <<>>)

\* POST /users/{user_id}/tasks/
create_task_for_user(user_id, task) ==
    /\ Serial
    /\ UNCHANGED <<users, user_seq>>
    /\ IF get_user(users, user_id) = NoRow
       THEN /\ last' = Response("create_task_for_user", user_id, 404, "User not found", <<>>)
            /\ UNCHANGED <<tasks, task_seq, now>>
       ELSE LET r == ops_create_task(users, tasks, task_seq, task, user_id, now)
            IN  /\ now < MaxClock
                /\ tasks' = r.tasks
                /\ task_seq' = NextSeq(task_seq)
                /\ now' = now + 1
                /\ last' = IF r.ok
                           THEN Response("create_task_for_user", user_id, 201, "", <<r.id>>)
                           ELSE Response("create_task_for_user", user_id, 500, "IntegrityError", <<>>)

\* GET /tasks/
read_tasks(skip, limit) ==
    /\ Serial
    /\ UNCHANGED <<users, tasks, user_seq, task_seq, now>>
    /\ IF QueryFails(skip, limit)
       THEN last' = Response("read_tasks", NoRow, 500, "DataError", <<>>)
       ELSE \E body \in OffsetLimit(get_tasks(tasks), skip, limit) :
              last' = ListResponse("read_tasks", NoRow, {body[i] : i \in DOMAIN body},
                        [i \in DOMAIN tasks |-> TaskResponseOk(tasks[i])], body)

\* GET /tasks/{task_id}
read_task(task_id) ==
    /\ Serial
    /\ UNCHANGED <<users, tasks, user_seq, task_seq, now>>
    /\ last' = IF get_task(tasks, task_id) = NoRow
               THEN Response("read_task", task_id, 404, "Task not found", <<>>)
               ELSE IF ~TaskResponseOk(tasks[task_id])
               THEN Response("read_task", task_id, 500, "ValidationError", <<>>)
               ELSE Response("read_task", task_id, 200, "", <<task_id>>)

\* GET /users/{user_id}/tasks/
read_user_tasks(user_id, skip, limit) ==
    /\ Serial
    /\ UNCHANGED <<users, tasks, user_seq, task_seq, now>>
    /\ IF get_user(users, user_id) = NoRow
       THEN last' = Response("read_user_tasks", user_id, 404, "User not found", <<>>)
       ELSE IF QueryFails(skip, limit)
       THEN last' = Response("read_user_tasks", user_id, 500, "DataError", <<>>)
       ELSE \E body \in OffsetLimit(get_user_tasks(tasks, user_id), skip, limit) :
              last' = ListResponse("read_user_tasks", user_id, {body[i] : i \in DOMAIN body},
                        [i \in DOMAIN tasks |-> TaskResponseOk(tasks[i])], body)

\* PUT /tasks/{task_id}
update_task(task_id, task) ==
    /\ Serial
    /\ UNCHANGED <<users, user_seq, task_seq>>
    /\ IF get_task(tasks, task_id) = NoRow
       THEN /\ last' = Response("update_task", task_id, 404, "Task not found", <<>>)
            /\ UNCHANGED <<tasks, now>>
       ELSE LET r == ops_update_task(tasks, tasks[task_id], task_id, task, now)
            IN  /\ now < MaxClock
                /\ tasks' = r.tasks
                /\ now' = now + 1
                /\ last' = UpdateTaskResponse(task_id, r)

\* DELETE /tasks/{task_id}
delete_task(task_id) ==
    /\ Serial
    /\ UNCHANGED <<users, user_seq, task_seq, now>>
    /\ IF get_task(tasks, task_id) = NoRow
       THEN /\ last' = Response("delete_task", task_id, 404, "Task not found", <<>>)
            /\ UNCHANGED tasks
       ELSE LET r == ops_delete_task(tasks, task_id)
            IN  /\ tasks' = r.tasks
                /\ last' = IF r.result
                           THEN Response("delete_task", task_id, 204, "", <<>>)
                           ELSE Response("delete_task", task_id, 500, "Error deleting task", <<>>)

-----------------------------------------------------------------------------
(* main.py: the handlers, interleaved. A request holds a slot of reqs from  *)
(* its first query to its response; every query or commit is one step, and  *)
(* the steps of other requests may run between two steps of a request.      *)

Request(op, pc, id, arg, loaded, status, detail) ==
    [op |-> op, pc |-> pc, id |-> id, arg |-> arg, loaded |-> loaded,
     status |-> status, detail |-> detail]

NoRequest == Request("", "idle", NoRow, <<>>, <<>>, 0, "")

Slots == 1 .. NumReqs

Interleaved == UNCHANGED <<backend, last>>

Goto(s, pc) == reqs' = [reqs EXCEPT ![s].pc = pc]

\* The response ends the request: its session, and what it had loaded, are gone
Respond(s, status, detail) ==
    reqs' = [reqs EXCEPT ![s] =
                Request(reqs[s].op, "done", reqs[s].id, <<>>, <<>>, status, detail)]

\* create_user: ops.get_user_by_username
create_user_username(s, user) ==
    /\ reqs[s].pc = "idle"
    /\ Interleaved
    /\ UNCHANGED <<users, tasks, user_seq, task_seq, now>>
    /\ reqs' = [reqs EXCEPT ![s] =
         IF get_user_by_username(users, user.username) # NoRow
         THEN Request("create_user", "done", NoRow, <<>>, <<>>, 400,
                      "Username already registered")
         ELSE Request("create_user", "email", NoRow, user, <<>>, 0, "")]

\* create_user: ops.get_user_by_email
create_user_email(s) ==
    /\ reqs[s].op = "create_user" /\ reqs[s].pc = "email"
    /\ Interleaved
    /\ UNCHANGED <<users, tasks, user_seq, task_seq, now>>
    /\ IF get_user_by_email(users, reqs[s].arg.email) # NoRow
       THEN Respond(s, 400, "Email already registered")
       ELSE Goto(s, "insert")

\* create_user: ops.create_user
create_user_insert(s) ==
    LET r == ops_create_user(users, user_seq, reqs[s].arg, now)
    IN  /\ reqs[s].op = "create_user" /\ reqs[s].pc = "insert"
        /\ now < MaxClock
        /\ Interleaved
        /\ UNCHANGED <<tasks, task_seq>>
        /\ users' = r.users
        /\ user_seq' = NextSeq(user_seq)
        /\ now' = now + 1
        /\ reqs' = [reqs EXCEPT ![s] =
                      IF r.ok
                      THEN Request("create_user", "done", r.id, <<>>, <<>>, 201, "")
                      ELSE Request("create_user", "done", NoRow, <<>>, <<>>, 500,
                                   "IntegrityError")]

\* The step of update_user that follows the lookups already made
AfterGet(user, db_user) ==
    IF ChecksUsername(user, db_user) THEN "username"
    ELSE IF ChecksEmail(user, db_user) THEN "email"
    ELSE "write"

\* update_user: ops.get_user
update_user_get(s, user_id, user) ==
    /\ reqs[s].pc = "idle"
    /\ Interleaved
    /\ UNCHANGED <<users, tasks, user_seq, task_seq, now>>
    /\ reqs' = [reqs EXCEPT ![s] =
         IF get_user(users, user_id) = NoRow
         THEN Request("update_user", "done", user_id, <<>>, <<>>, 404, "User not found")
         ELSE Request("update_user", AfterGet(user, users[user_id]), user_id, user,
                      users[user_id], 0, "")]

\* update_user: ops.get_user_by_username
update_user_username(s) ==
    /\ reqs[s].op = "update_user" /\ reqs[s].pc = "username"
    /\ Interleaved
    /\ UNCHANGED <<users, tasks, user_seq, task_seq, now>>
    /\ IF get_user_by_username(users, reqs[s].arg.username[2]) # NoRow
       THEN Respond(s, 400, "Username already taken")
       ELSE Goto(s, IF ChecksEmail(reqs[s].arg, reqs[s].loaded) THEN "email" ELSE "write")

\* update_user: ops.get_user_by_email
update_user_email(s) ==
    /\ reqs[s].op = "update_user" /\ reqs[s].pc = "email"
    /\ Interleaved
    /\ UNCHANGED <<users, tasks, user_seq, task_seq, now>>
    /\ IF get_user_by_email(users, reqs[s].arg.email[2]) # NoRow
       THEN Respond(s, 400, "Email already registered")
       ELSE Goto(s, "write")

\* update_user: ops.update_user
update_user_write(s) ==
    LET r == ops_update_user(users, reqs[s].loaded, reqs[s].id, reqs[s].arg, now)
        response == UpdateUserResponse(reqs[s].id, r)
    IN  /\ reqs[s].op = "update_user" /\ reqs[s].pc = "write"
        /\ now < MaxClock
        /\ Interleaved
        /\ UNCHANGED <<tasks, task_seq, user_seq>>
        /\ users' = r.users
        /\ now' = now + 1
        /\ Respond(s, response.status, response.detail)

\* delete_user: ops.get_user
delete_user_get(s, user_id) ==
    /\ reqs[s].pc = "idle"
    /\ Interleaved
    /\ UNCHANGED <<users, tasks, user_seq, task_seq, now>>
    /\ reqs' = [reqs EXCEPT ![s] =
         IF get_user(users, user_id) = NoRow
         THEN Request("delete_user", "done", user_id, <<>>, <<>>, 404, "User not found")
         ELSE Request("delete_user", "delete", user_id, <<>>, users[user_id], 0, "")]

\* delete_user: ops.delete_user
delete_user_delete(s) ==
    LET r == ops_delete_user(users, tasks, reqs[s].id)
    IN  /\ reqs[s].op = "delete_user" /\ reqs[s].pc = "delete"
        /\ Interleaved
        /\ UNCHANGED <<user_seq, task_seq, now>>
        /\ users' = r.users
        /\ tasks' = r.tasks
        /\ IF r.result
           THEN Respond(s, 204, "")
           ELSE Respond(s, 500, "Error deleting user")

\* create_task_for_user: ops.get_user
create_task_for_user_get(s, user_id, task) ==
    /\ reqs[s].pc = "idle"
    /\ Interleaved
    /\ UNCHANGED <<users, tasks, user_seq, task_seq, now>>
    /\ reqs' = [reqs EXCEPT ![s] =
         IF get_user(users, user_id) = NoRow
         THEN Request("create_task_for_user", "done", user_id, <<>>, <<>>, 404,
                      "User not found")
         ELSE Request("create_task_for_user", "insert", user_id, task,
                      users[user_id], 0, "")]

\* create_task_for_user: ops.create_task
create_task_for_user_insert(s) ==
    LET r == ops_create_task(users, tasks, task_seq, reqs[s].arg, reqs[s].id, now)
    IN  /\ reqs[s].op = "create_task_for_user" /\ reqs[s].pc = "insert"
        /\ now < MaxClock
        /\ Interleaved
        /\ UNCHANGED <<users, user_seq>>
        /\ tasks' = r.tasks
        /\ task_seq' = NextSeq(task_seq)
        /\ now' = now + 1
        /\ IF r.ok
           THEN Respond(s, 201, "")
           ELSE Respond(s, 500, "IntegrityError")

-----------------------------------------------------------------------------
(* The requests the specifications send *)

\* Path parameters
Ids == 1 .. MaxClock

\* skip and limit
Pages == -1 .. MaxPage

\* POST /users/ with the schema's defaults for is_active and is_premium
DefaultUserCreate ==
    {u \in UserCreate : u.is_active /\ ~u.is_premium /\ u.password = "secret"}

\* POST /users/ for ana and for bob
TwoUserCreate ==
    {u \in UserCreate : /\ u.password = "secret"
                        /\ u.username = "ana" <=> u.email = "a@x.com"}

\* PUT /users/{user_id}
SomeUserUpdate ==
    { Payload(UserFields, <<>>),
      Payload(UserFields, [is_premium |-> Val(TRUE)]),
      Payload(UserFields, [password |-> Val("secret")]),
      Payload(UserFields, [password |-> Val("")]),
      Payload(UserFields, [password |-> Null]),
      Payload(UserFields, [is_active |-> Null]),
      Payload(UserFields, [is_active |-> Val(FALSE), username |-> Val("bob")]),
      Payload(UserFields, [username |-> Val("ana"), email |-> Val("b@x.com")]),
      Payload(UserFields, [email |-> Val("a@x.com"), is_premium |-> Val(FALSE)]) }

\* POST /users/{user_id}/tasks/
SomeTaskCreate ==
    { [title |-> "report", description |-> Val("draft"), completed |-> FALSE,
       priority |-> 1, due_date |-> Null] }

\* PUT /tasks/{task_id}
SomeTaskUpdate ==
    { Payload(TaskFields, [completed |-> Val(TRUE)]),
      Payload(TaskFields, [title |-> Val("review"), completed |-> Val(TRUE),
                           priority |-> Val(5)]),
      Payload(TaskFields, [description |-> Null, due_date |-> Val(1)]),
      Payload(TaskFields, [title |-> Null]),
      Payload(TaskFields, [priority |-> Null]) }

-----------------------------------------------------------------------------
(* Specifications *)

Init ==
    /\ backend \in {"sqlite", "postgresql"}
    /\ users = <<>>
    /\ tasks = <<>>
    /\ user_seq = 0
    /\ task_seq = 0
    /\ now = 1
    /\ last = NoResponse
    /\ reqs = [s \in Slots |-> NoRequest]

\* Requests handled one at a time
Next ==
    \/ \E user \in DefaultUserCreate : create_user(user)
    \/ \E user_id \in Ids, user \in SomeUserUpdate : update_user(user_id, user)
    \/ \E user_id \in Ids : delete_user(user_id)
    \/ \E user_id \in Ids, task \in SomeTaskCreate : create_task_for_user(user_id, task)
    \/ \E task_id \in Ids, task \in SomeTaskUpdate : update_task(task_id, task)
    \/ \E task_id \in Ids : delete_task(task_id)

Spec == Init /\ [][Next]_vars

\* The list endpoints over the stores that requests handled one at a time build
NextList ==
    \/ \E user \in TwoUserCreate : create_user(user)
    \/ \E user_id \in Ids : delete_user(user_id)
    \/ \E user_id \in Ids, task \in SomeTaskCreate : create_task_for_user(user_id, task)
    \/ \E skip \in Pages, limit \in Pages, active \in {Null, Val(TRUE), Val(FALSE)},
          premium \in {Null, Val(TRUE), Val(FALSE)} :
            read_users(skip, limit, active, premium)
    \/ \E skip \in Pages, limit \in Pages : read_tasks(skip, limit)
    \/ \E user_id \in Ids, skip \in Pages, limit \in Pages :
            read_user_tasks(user_id, skip, limit)
    \/ \E user_id \in Ids : read_user_with_tasks(user_id)
    \/ \E user_id \in Ids : read_user(user_id)
    \/ \E task_id \in Ids : read_task(task_id)

SpecList == Init /\ [][NextList]_vars

\* POST /users/ with every payload, and the requests that free an email
NextCreate ==
    \/ \E user \in UserCreate : create_user(user)
    \/ \E user_id \in Ids : delete_user(user_id)

SpecCreate == Init /\ [][NextCreate]_vars

\* PUT /users/{user_id} and PUT /tasks/{task_id} over the rows of ana and bob
AnaBobCreate ==
    { [username |-> "ana", email |-> "a@x.com", password |-> "secret",
       is_active |-> TRUE, is_premium |-> FALSE],
      [username |-> "bob", email |-> "b@x.com", password |-> "",
       is_active |-> FALSE, is_premium |-> TRUE] }

FrameUserUpdate ==
    { Payload(UserFields, <<>>),
      Payload(UserFields, [is_premium |-> Val(TRUE)]),
      Payload(UserFields, [password |-> Val("secret")]),
      Payload(UserFields, [is_active |-> Null]),
      Payload(UserFields, [is_active |-> Val(FALSE), username |-> Val("bob")]),
      Payload(UserFields, [username |-> Val("ana"), email |-> Val("b@x.com")]) }

FrameTaskUpdate ==
    { Payload(TaskFields, [title |-> Val("review"), completed |-> Val(TRUE),
                           priority |-> Val(5)]),
      Payload(TaskFields, [description |-> Null, due_date |-> Val(1)]),
      Payload(TaskFields, [priority |-> Null]) }

NextUpdate ==
    \/ \E user \in AnaBobCreate : create_user(user)
    \/ \E user_id \in Ids, user \in FrameUserUpdate : update_user(user_id, user)
    \/ \E user_id \in Ids, task \in SomeTaskCreate : create_task_for_user(user_id, task)
    \/ \E task_id \in Ids, task \in FrameTaskUpdate : update_task(task_id, task)

SpecUpdate == Init /\ [][NextUpdate]_vars

\* Requests interleaved step by step, over the users that requests running
\* alone have created
ConcUserUpdate ==
    { Payload(UserFields, [email |-> Val("a@x.com")]),
      Payload(UserFields, [username |-> Val("ana")]) }

NextConc ==
    \/ \E user \in AnaBobCreate : create_user(user)
    \/ \E s \in Slots, user \in DefaultUserCreate : create_user_username(s, user)
    \/ \E s \in Slots : create_user_email(s)
    \/ \E s \in Slots : create_user_insert(s)
    \/ \E s \in Slots, user_id \in Ids, user \in ConcUserUpdate :
            update_user_get(s, user_id, user)
    \/ \E s \in Slots : update_user_username(s)
    \/ \E s \in Slots : update_user_email(s)
    \/ \E s \in Slots : update_user_write(s)

SpecConc == Init /\ [][NextConc]_vars

\* DELETE /users/{user_id} and POST /users/{user_id}/tasks/ interleaved step
\* by step
NextCascade ==
    \/ \E user \in AnaBobCreate : create_user(user)
    \/ \E s \in Slots, user_id \in Ids : delete_user_get(s, user_id)
    \/ \E s \in Slots : delete_user_delete(s)
    \/ \E s \in Slots, user_id \in Ids, task \in SomeTaskCreate :
            create_task_for_user_get(s, user_id, task)
    \/ \E s \in Slots : create_task_for_user_insert(s)

SpecCascade == Init /\ [][NextCascade]_vars

\* DELETE /users/{user_id} requests interleaved with one another and with no
\* other request, over the users and tasks created before the first of them
NoRequestYet == \A s \in Slots : reqs[s].pc = "idle"

NextDelete ==
    \/ NoRequestYet /\ \E user \in DefaultUserCreate : create_user(user)
    \/ NoRequestYet /\ \E user_id \in Ids, task \in SomeTaskCreate :
                          create_task_for_user(user_id, task)
    \/ \E s \in Slots, user_id \in Ids : delete_user_get(s, user_id)
    \/ \E s \in Slots : delete_user_delete(s)

SpecDelete == Init /\ [][NextDelete]_vars

-----------------------------------------------------------------------------
(* Properties *)

Errors == {400, 404, 500}

\* C1: a create-user request whose email is the email of a stored user is
\* answered 400 and inserts nothing, whatever its other fields are.
C1_DuplicateEmailRejected ==
    [][\A user \in UserCreate :
         (/\ last'.op = "create_user"
          /\ \E i \in DOMAIN users : users[i].email = Val(user.email)
          /\ create_user(user))
         => /\ last'.status = 400
            /\ last'.detail \in {"Username already registered", "Email already registered"}
            /\ users' = users]_vars

\* C1 witness: a create-user request was refused for its email alone.
C1_Witness ==
    /\ last.op = "create_user"
    /\ last.status = 400
    /\ last.detail = "Email already registered"
    /\ Cardinality(DOMAIN users) = 1

\* C4: a successful update_user or update_task leaves every field its payload
\* does not carry (updated_at aside) and every other row as it was.
C4_UpdateFrame ==
    [][/\ \A user_id \in Ids, user \in FrameUserUpdate :
            (/\ last'.op = "update_user" /\ last'.id = user_id /\ last'.status = 200
             /\ update_user(user_id, user))
            => /\ \A f \in UserFields : user[f] = Unset => users'[user_id][f] = users[user_id][f]
               /\ users'[user_id].created_at = users[user_id].created_at
               /\ DOMAIN users' = DOMAIN users
               /\ \A j \in DOMAIN users \ {user_id} : users'[j] = users[j]
               /\ tasks' = tasks
       /\ \A task_id \in Ids, task \in FrameTaskUpdate :
            (/\ last'.op = "update_task" /\ last'.id = task_id /\ last'.status = 200
             /\ update_task(task_id, task))
            => /\ \A f \in TaskFields : task[f] = Unset => tasks'[task_id][f] = tasks[task_id][f]
               /\ tasks'[task_id].created_at = tasks[task_id].created_at
               /\ tasks'[task_id].user_id = tasks[task_id].user_id
               /\ DOMAIN tasks' = DOMAIN tasks
               /\ \A j \in DOMAIN tasks \ {task_id} : tasks'[j] = tasks[j]
               /\ users' = users]_vars

\* C4 witness: a task was updated with title, completed and priority only, and
\* kept its description.
C4_Witness ==
    /\ last.op = "update_task"
    /\ last.status = 200
    /\ tasks[last.id].title = Val("review")
    /\ tasks[last.id].description = Val("draft")
    /\ tasks[last.id].updated_at > tasks[last.id].created_at

\* C5: after a successful create_user, and after a successful update_user
\* whose payload carries a password, the stored password is the hash of the
\* cleartext sent and never the cleartext.
C5_PasswordHashed ==
    [][/\ \A user \in DefaultUserCreate :
            (last'.op = "create_user" /\ last'.status = 201 /\ create_user(user))
            => /\ users'[last'.id].password = Val(Hash(user.password))
               /\ users'[last'.id].password # Val(user.password)
       /\ \A user_id \in Ids, user \in SomeUserUpdate :
            (/\ last'.op = "update_user" /\ last'.id = user_id /\ last'.status = 200
             /\ user.password \notin {Unset, Null}
             /\ update_user(user_id, user))
            => /\ users'[user_id].password = Val(Hash(user.password[2]))
               /\ users'[user_id].password # user.password]_vars

\* C6: a request answered with an error status leaves users and tasks as they
\* were.
C6_ErrorsChangeNothing ==
    [][last'.status \in Errors => users' = users /\ tasks' = tasks]_vars

\* The errors main.py raises itself, and the commit that fails, change nothing.
RaisedErrorsChangeNothing ==
    [][(last'.status \in Errors /\ last'.detail # "ValidationError")
         => users' = users /\ tasks' = tasks]_vars

\* C9: the premium promotion of a stored user succeeds, leaves is_premium true
\* and changes no other field but updated_at; so does a second one.
Promotion == Payload(UserFields, [is_premium |-> Val(TRUE)])

C9_PromotionIdempotent ==
    [][\A user_id \in DOMAIN users :
         (last'.op = "update_user" /\ last'.id = user_id
            /\ update_user(user_id, Promotion))
         => /\ last'.status = 200
            /\ users'[user_id].is_premium = Val(TRUE)
            /\ \A f \in DOMAIN users[user_id] \ {"is_premium", "updated_at"} :
                 users'[user_id][f] = users[user_id][f]]_vars

\* A user whose flags are not NULL is promoted as C9 says, twice as well.
ValidUserPromotion ==
    [][\A user_id \in DOMAIN users :
         (/\ last'.op = "update_user" /\ last'.id = user_id
          /\ UserResponseOk(users[user_id])
          /\ update_user(user_id, Promotion))
         => /\ last'.status = 200
            /\ users'[user_id].is_premium = Val(TRUE)
            /\ \A f \in DOMAIN users[user_id] \ {"is_premium", "updated_at"} :
                 users'[user_id][f] = users[user_id][f]]_vars

\* C2: no two stored users share an email or a username, however the steps
\* of create-user and update-user requests interleave.
C2_UniqueEmailAndUsername ==
    \A i, j \in DOMAIN users :
        i # j => users[i].email # users[j].email /\ users[i].username # users[j].username

\* C2 witness: a request passed its lookups and lost the race: its commit
\* was refused.
C2_Witness ==
    \E s \in Slots :
        /\ reqs[s].op \in {"create_user", "update_user"}
        /\ reqs[s].status = 500
        /\ reqs[s].detail = "IntegrityError"

\* C3: every stored task belongs to a stored user, also when a
\* create_task_for_user request interleaves with the deletion of its user.
C3_NoOrphanTask ==
    \A t \in DOMAIN tasks : tasks[t].user_id \in DOMAIN users

\* C10: of the DELETE requests for one user, at most one is answered 204 and
\* the others 404 or 500; 500 only to a request that saw the user and lost it
\* to another request; and once all are answered, 204 exactly once if any of
\* them saw the user.
DeletesOf(user_id) ==
    {s \in Slots : reqs[s].op = "delete_user" /\ reqs[s].id = user_id}

Listed(body) == {body[i] : i \in DOMAIN body}

Filters == {Null, Val(TRUE), Val(FALSE)}

\* C7: for all the skip and limit values the list endpoints accept, the list
\* returned has at most limit elements, none when limit = 0 and none when
\* skip is at least the number of rows matching.
C7_ListBounds ==
    [][/\ \A skip \in Pages, limit \in Pages, active \in Filters, premium \in Filters :
            (/\ last'.op = "read_users" /\ last'.status = 200
             /\ read_users(skip, limit, active, premium))
            => /\ Len(last'.body) <= limit
               /\ limit = 0 => last'.body = <<>>
               /\ skip >= Cardinality(ReadUsersRows(users, active, premium))
                    => last'.body = <<>>
       /\ \A skip \in Pages, limit \in Pages :
            (/\ last'.op = "read_tasks" /\ last'.status = 200
             /\ read_tasks(skip, limit))
            => /\ Len(last'.body) <= limit
               /\ limit = 0 => last'.body = <<>>
               /\ skip >= Cardinality(get_tasks(tasks)) => last'.body = <<>>]_vars

\* With limit >= 0 the lists a query may return are bounded as C7 says.
NonNegativeLimitBounds ==
    \A skip \in Pages, limit \in Pages :
        limit >= 0 =>
            \A body \in OffsetLimit(get_users(users), skip, limit) :
                /\ Len(body) <= limit
                /\ skip >= Cardinality(get_users(users)) => body = <<>>

\* C8: every user GET /users/ returns has is_active = active when active is
\* sent and is_premium = premium when premium is sent.
C8_FiltersAreEqualities ==
    [][\A skip \in Pages, limit \in Pages, active \in Filters, premium \in Filters :
         (/\ last'.op = "read_users" /\ last'.status = 200
          /\ read_users(skip, limit, active, premium))
         => \A i \in Listed(last'.body) :
              /\ active # Null => users[i].is_active = active
              /\ premium # Null => users[i].is_premium = premium]_vars

====
